---- MODULE Spec2Model ----
(***************************************************************************)
(* State machine of the SheetTable component                               *)
(* (packages/starksheet-webapp/src/components/SheetTable/SheetTable.tsx).  *)
(*                                                                         *)
(* The shared React state (values, appStatus, onsheet) is updated by the   *)
(* setters as soon as they are called.  The `load` callback reads the      *)
(* state through the closure created by the render in which its useCallback*)
(* dependencies last changed; that snapshot is the variable `load`.        *)
(* Every promise callback of a load invocation is one action; an           *)
(* invocation in flight is a record in `loads`.  A Promise.all settles in  *)
(* one step: when all its calls have resolved, or when the first rejects.  *)
(***************************************************************************)
EXTENDS Integers, Sequences, FiniteSets, TLC

VARIABLES
    address,               \* route parameter params.address ("" on the root route)
    contract,              \* whether useSheetContract(address) returns a contract
    values,                \* CellValuesContext.values: address -> cell array
    appStatus,             \* AppStatusContext.appStatus.sheets: address -> status
    sheets,                \* OnsheetContext.onsheet.sheets
    selectedSheetAddress,  \* OnsheetContext.onsheet.selectedSheetAddress
    load,                  \* what the current `load` callback captured
    effectPending,         \* the useEffect of lines 205-210 is scheduled
    loads,                 \* load invocations whose promise chains are in flight
    navigations,           \* how often the user has opened a sheet
    reruns                 \* how often the effect has run again with the same load

vars == <<address, contract, values, appStatus, sheets, selectedSheetAddress,
          load, effectPending, loads, navigations, reruns>>

env == <<navigations, reruns>>

-----------------------------------------------------------------------------
(* Bounds and constants *)

GRID_SIZE == 2

RC_BOUND == 4

MaxLoads == 2

MaxRendered == 3

MaxSheets == 3

MaxNavigations == 2

MaxReruns == 1

Addrs == {"A", "B"}

NoAddress == ""

Slots == 1..MaxLoads

GridIndexes == 0..(GRID_SIZE - 1)

-----------------------------------------------------------------------------
(* Cells *)

defaultRenderedCell(tokenId) == [id |-> tokenId, owner |-> 0, value |-> 0]

\* cell data that refers to the cell at index 0
defaultCellDataZero(tokenId) ==
    [contractAddress |-> 0, selector |-> 0, calldata |-> <<>>]

defaultCellData(tokenId) ==
    [contractAddress |-> RC_BOUND, selector |-> 0, calldata |-> <<>>]

\* { ...a, ...b }: the fields of b override those of a
Spread(a, b) ==
    [f \in (DOMAIN a) \cup (DOMAIN b) |-> IF f \in DOMAIN b THEN b[f] ELSE a[f]]

DefaultCell(i) == Spread(defaultRenderedCell(i), defaultCellData(i))

bn2hex(n) == <<"0x", n>>

\* the ABI of a contract: selector (hex) -> function ABI of that contract
AbiOf(hexAddress) == [hexSelector \in {bn2hex(s) : s \in 0..2} |-> <<"fn", hexAddress, hexSelector>>]

-----------------------------------------------------------------------------
(* Shared status *)

DefaultSheetStatus == [loading |-> FALSE, error |-> FALSE, message |-> ""]

\* updateSheetStatus(address, partial): merges partial into the entry of address
UpdateSheetStatus(st, a, partial) ==
    [b \in (DOMAIN st) \cup {a} |->
        IF b = a
        THEN Spread(IF a \in DOMAIN st THEN st[a] ELSE DefaultSheetStatus, partial)
        ELSE st[b]]

ErrorMessage(a) ==
    "Error: Starksheet cannot render sheet at address " \o a

\* setValues(() => ({ [key]: cells })), dropping the other sheets
SetValuesAlone(prevValues, key, cells) == [b \in {key} |-> cells]

\* an updater that returns the previous values
SetValuesDropped(prevValues, key, cells) == prevValues

\* setValues((prevValues) => ({ ...prevValues, [key]: cells }))
SetValues(prevValues, key, cells) ==
    [b \in (DOMAIN prevValues) \cup {key} |->
        IF b = key THEN cells ELSE prevValues[b]]

\* onsheet.sheets.find((sheet) => sheet.address === address)
FindSheet(ss, a) ==
    IF \E i \in 1..Len(ss) : ss[i].address = a
    THEN ss[CHOOSE i \in 1..Len(ss) :
                /\ ss[i].address = a
                /\ \A j \in 1..(i - 1) : ss[j].address # a]
    ELSE [address |-> NoAddress]

SheetFound(sheet) == sheet.address # NoAddress

HasCalldata(sheet) == SheetFound(sheet) /\ sheet.calldata

-----------------------------------------------------------------------------
(* Load invocations *)

NoLoad == [stage |-> "free"]

FreeSlots(S) == {p \in S : loads[p] = NoLoad}

FirstFree(S) == CHOOSE p \in FreeSlots(S) : \A q \in FreeSlots(S) : p <= q

\* the guard of lines 77-81
IsLoading(st, a) == a \in DOMAIN st /\ st[a].loading

\* the short-circuit of lines 88-91
IsCached(vals, a) == a \in DOMAIN vals /\ Len(vals[a]) # 0

\* the locals of an invocation that passed the guards; named: the name and
\* symbol calls are issued
LoadRecord(a, sheet, named) ==
    [addr         |-> a,
     stage        |-> IF HasCalldata(sheet) THEN "cells" ELSE "renderCells",
     error        |-> FALSE,
     finalMessage |-> "",
     nameSymbol   |-> IF named THEN "pending" ELSE "none",
     appended     |-> 0,
     cells        |-> <<>>,
     grid         |-> <<>>,
     array        |-> <<>>,
     abiFor       |-> <<>>,
     failure      |-> "none",
     navigated    |-> 0,
     wrote        |-> 0,
     renderCalls  |-> IF HasCalldata(sheet) THEN 0 ELSE 1,
     getCellCalls |-> <<>>,
     abiCalls     |-> <<>>]

\* an invocation that asks for name and symbol even for a listed sheet
NewLoadNamed(a, sheet) == LoadRecord(a, sheet, TRUE)

\* lines 96-139: the calls are issued when the sheet is not listed
NewLoad(a, sheet) == LoadRecord(a, sheet, ~SheetFound(sheet))

\* what the `load` callback created by a render reads: it is only ever
\* called with the address of that render
Snapshot ==
    [address |-> address, contract |-> contract, values |-> values,
     loading |-> IsLoading(appStatus, address),
     sheet   |-> FindSheet(sheets, address)]

-----------------------------------------------------------------------------
(* Routing and rendering *)

\* the user opens the sheet at address a; c: useSheetContract has a contract
Navigate(a, c) ==
    /\ a # address
    /\ navigations < MaxNavigations
    /\ navigations' = navigations + 1
    /\ address' = a
    /\ contract' = c
    /\ UNCHANGED <<values, appStatus, sheets, selectedSheetAddress, load,
                   effectPending, loads, reruns>>

\* useSheetContract delivers the contract of the current address
ContractReady ==
    /\ address # NoAddress
    /\ ~contract
    /\ contract' = TRUE
    /\ UNCHANGED <<address, values, appStatus, sheets, selectedSheetAddress,
                   load, effectPending, loads,
                   env>>

\* the dependencies of useCallback (line 202) differ from the captured ones
DepsChanged ==
    \/ load.address # address
    \/ load.contract # contract
    \/ load.values # values

\* a render that re-creates `load` and therefore schedules the effect
Render ==
    /\ DepsChanged
    /\ load' = Snapshot
    /\ effectPending' = TRUE
    /\ UNCHANGED <<address, contract, values, appStatus, sheets,
                   selectedSheetAddress, loads,
                   env>>

\* the effect runs again with the same `load` (its dependency
\* setSelectedSheetAddress changed, or the component was re-mounted)
EffectAgain ==
    /\ ~DepsChanged
    /\ ~effectPending
    /\ address # NoAddress
    /\ reruns < MaxReruns
    /\ reruns' = reruns + 1
    /\ effectPending' = TRUE
    /\ UNCHANGED <<address, contract, values, appStatus, sheets,
                   selectedSheetAddress, load, loads, navigations>>

\* a cached path that returns without its second updateSheetStatus
StatusCachedStuck(st, a) ==
    UpdateSheetStatus(st, a, [loading |-> TRUE, error |-> FALSE])

\* the two updateSheetStatus calls of lines 83-86 and 92
StatusCached(st, a) ==
    UpdateSheetStatus(
        UpdateSheetStatus(st, a, [loading |-> TRUE, error |-> FALSE]),
        a, [loading |-> FALSE])

\* the two updateSheetStatus calls of lines 83-86 and 99-101
StatusStarted(st, a) ==
    UpdateSheetStatus(
        UpdateSheetStatus(st, a, [loading |-> TRUE, error |-> FALSE]),
        a, [message |-> "Rendering grid values"])

\* the guards of lines 67-81
Guarded(a) == a = NoAddress \/ ~load.contract \/ load.loading

\* load(a), lines 66-139, reading the state captured in `load`
Load(a, S) ==
    IF Guarded(a)
    THEN UNCHANGED <<appStatus, loads>>
    ELSE IF IsCached(load.values, a)
    THEN /\ appStatus' = StatusCached(appStatus, a)
         /\ UNCHANGED loads
    ELSE /\ FreeSlots(S) # {}
         /\ appStatus' = StatusStarted(appStatus, a)
         /\ loads' = [loads EXCEPT ![FirstFree(S)] = NewLoad(a, load.sheet)]

\* useEffect, lines 205-210
Effect(S) ==
    /\ effectPending
    /\ effectPending' = FALSE
    /\ IF load.address # NoAddress
       THEN /\ selectedSheetAddress' = load.address
            /\ Load(load.address, S)
       ELSE UNCHANGED <<selectedSheetAddress, appStatus, loads>>
    /\ UNCHANGED <<address, contract, values, sheets, load,
                   env>>

-----------------------------------------------------------------------------
(* The promise chain of one load invocation, lines 104-199 *)

At(arr, i) == arr[i + 1]

InFlight(p) == loads[p] # NoLoad

Stage(p, st) == InFlight(p) /\ loads[p].stage = st

\* the name/symbol Promise.all of lines 104-118 can still settle
NameSymbolLive(r) == r.nameSymbol = "pending"

\* a settled invocation leaves `loads` once nothing of it is pending
Retire(r) == IF r.stage = "done" /\ ~NameSymbolLive(r) THEN NoLoad ELSE r

\* cells.reduce(...), lines 145-151: the last cell of each id wins
HasId(cells, i) == \E k \in 1..Len(cells) : cells[k].id = i

LastWithId(cells, i) ==
    cells[CHOOSE k \in 1..Len(cells) :
              /\ cells[k].id = i
              /\ \A j \in (k + 1)..Len(cells) : cells[j].id # i]

\* the fetched cells taken as the grid, without the placeholders
BuildGridNoFill(cells) == cells

\* Array.from(Array(GRID_SIZE).keys()).map(...), lines 154-161
BuildGrid(cells) ==
    [k \in 1..GRID_SIZE |->
        IF HasId(cells, k - 1) THEN LastWithId(cells, k - 1)
        ELSE DefaultCell(k - 1)]

\* array[cell.contractAddress.toNumber()].value throws outside the array
ResolveThrows(cell, array) ==
    /\ cell.contractAddress < RC_BOUND
    /\ cell.contractAddress >= Len(array)

\* a reference resolved to the value of the referring cell itself
ResolveOwnValue(cell, array) ==
    IF cell.contractAddress < RC_BOUND
    THEN cell.value
    ELSE cell.contractAddress

\* resolvedContractAddress, lines 163-167
Resolve(cell, array) ==
    IF cell.contractAddress < RC_BOUND
    THEN At(array, cell.contractAddress).value
    ELSE cell.contractAddress

TypeError == <<"TypeError", 0>>

\* the argument of each getAbiForContract call issued by lines 162-170
AbiRequests(array) ==
    [k \in 1..Len(array) |->
        IF ResolveThrows(array[k], array) THEN TypeError
        ELSE bn2hex(Resolve(array[k], array))]

\* a Promise.all that rejects only when every element rejects
ThrewAll(reqs) == \A k \in 1..Len(reqs) : reqs[k] = TypeError

Threw(reqs) == \E k \in 1..Len(reqs) : reqs[k] = TypeError

\* the callback of the first .then, lines 141-177, on the resolved cells
FirstThen(r, cells) ==
    LET grid == BuildGrid(cells)
        reqs == AbiRequests(grid)
    IN [r EXCEPT !.cells = <<>>,
                 !.grid = grid,
                 !.array = grid,
                 !.abiFor = reqs,
                 !.abiCalls = [k \in 1..Len(reqs) |->
                                  IF reqs[k] = TypeError THEN 0 ELSE 1],
                 !.failure = IF Threw(reqs) THEN "resolve" ELSE "none",
                 !.stage = IF Threw(reqs) THEN "rejected" ELSE "abi"]

\* a .catch callback that leaves finalMessage empty
AfterCatchSilent(r) ==
    [r EXCEPT !.navigated = @ + 1,
              !.stage = "finally"]

\* a .catch callback that calls renderCells again
AfterCatchRetry(r) ==
    [r EXCEPT !.finalMessage = ErrorMessage(r.addr),
              !.navigated = @ + 1,
              !.renderCalls = @ + 1,
              !.stage = "renderCells"]

\* the locals after the .catch callback, lines 184-190: its parameter
\* `error` shadows the local `error` of line 96
AfterCatch(r) ==
    [r EXCEPT !.finalMessage = ErrorMessage(r.addr),
              !.navigated = @ + 1,
              !.stage = "finally"]

\* .catch, lines 184-192, with navigate(`/`), of an invocation whose chain
\* is rejected because of `what`
CatchOf(p, what) ==
    /\ loads' = [loads EXCEPT ![p] = AfterCatch([@ EXCEPT !.failure = what])]
    /\ address' = NoAddress
    /\ contract' = FALSE
    /\ UNCHANGED <<values, appStatus, sheets, selectedSheetAddress, load,
                   effectPending,
                   env>>

\* contract.renderCells() resolves (lines 124-138): one getCell per cell
RenderCellsResolved(p, renderedCells) ==
    /\ Stage(p, "renderCells")
    /\ appStatus' = UpdateSheetStatus(appStatus, loads[p].addr,
                                      [message |-> "Fetching cells metadata"])
    /\ loads' = [loads EXCEPT ![p] =
          [@ EXCEPT !.cells = renderedCells,
                    !.getCellCalls = [i \in 1..Len(renderedCells) |-> 1],
                    !.stage = IF Len(renderedCells) = 0
                              THEN "cells" ELSE "getCell"]]
    /\ UNCHANGED <<address, contract, values, sheets, selectedSheetAddress,
                   load, effectPending,
                   env>>

RenderCellsRejected(p) ==
    /\ Stage(p, "renderCells")
    /\ CatchOf(p, "renderCells")

\* { ...cell, ..._cell, error: cell.error }, lines 131-135
MergeCell(cell, _cell) == Spread(Spread(cell, _cell), [error |-> cell.error])

\* every contract.getCell(cell.id) has resolved, each with some cell data:
\* the first .then runs
GetCellsResolved(p, cellData) ==
    /\ Stage(p, "getCell")
    /\ appStatus' = UpdateSheetStatus(appStatus, loads[p].addr,
                                      [message |-> "Finalizing sheet data"])
    /\ \E _cells \in [1..Len(loads[p].cells) -> cellData] :
          loads' = [loads EXCEPT ![p] =
              FirstThen(@, [i \in 1..Len(loads[p].cells) |->
                               MergeCell(loads[p].cells[i], _cells[i])])]
    /\ UNCHANGED <<address, contract, values, sheets, selectedSheetAddress,
                   load, effectPending,
                   env>>

\* the getCell call of the i-th rendered cell is the first to reject
GetCellRejected(p, i) ==
    /\ Stage(p, "getCell")
    /\ i \in 1..Len(loads[p].cells)
    /\ CatchOf(p, "getCell")

\* the first .then on cells that are already resolved (no getCell pending)
CellsThen(p) ==
    /\ Stage(p, "cells")
    /\ appStatus' = UpdateSheetStatus(appStatus, loads[p].addr,
                                      [message |-> "Finalizing sheet data"])
    /\ loads' = [loads EXCEPT ![p] = FirstThen(@, loads[p].cells)]
    /\ UNCHANGED <<address, contract, values, sheets, selectedSheetAddress,
                   load, effectPending,
                   env>>

\* { ...cell, abi: abi[bn2hex(cell.selector)] }, lines 171-174
WithAbi(cell, abi) == Spread(cell, [abi |-> abi[bn2hex(cell.selector)]])

\* every getAbiForContract call has resolved: the second .then,
\* lines 178-183, stores the cells
AbisResolved(p) ==
    /\ Stage(p, "abi")
    /\ LET cells == [k \in 1..Len(loads[p].grid) |->
                        WithAbi(loads[p].grid[k], AbiOf(loads[p].abiFor[k]))]
       IN /\ values' = SetValues(values, loads[p].addr, cells)
          /\ loads' = [loads EXCEPT ![p] =
                [@ EXCEPT !.array = cells, !.wrote = @ + 1,
                          !.stage = "finally"]]
    /\ UNCHANGED <<address, contract, appStatus, sheets, selectedSheetAddress,
                   load, effectPending,
                   env>>

\* the getAbiForContract call of grid index i is the first to reject
AbiRejected(p, i) ==
    /\ Stage(p, "abi")
    /\ CatchOf(p, "abi")

\* .catch after the cell resolution of lines 163-167 threw
Catch(p) ==
    /\ Stage(p, "rejected")
    /\ CatchOf(p, loads[p].failure)

\* a last status update that does not mention `loading`
FinalStatusBusy(r) ==
    [error |-> r.error, message |-> r.finalMessage]

\* the argument of the last updateSheetStatus, lines 194-198
FinalStatus(r) ==
    [loading |-> FALSE, error |-> r.error, message |-> r.finalMessage]

\* an invocation whose chain has settled: its intermediate results are dead
Settled(r) ==
    [r EXCEPT !.stage = "done", !.cells = <<>>, !.grid = <<>>,
              !.array = <<>>, !.abiFor = <<>>]

\* .finally, lines 193-199
Finally(p) ==
    /\ Stage(p, "finally")
    /\ appStatus' = UpdateSheetStatus(appStatus, loads[p].addr,
                                      FinalStatus(loads[p]))
    /\ loads' = [loads EXCEPT ![p] = Retire(Settled(@))]
    /\ UNCHANGED <<address, contract, values, sheets, selectedSheetAddress,
                   load, effectPending,
                   env>>

\* appendSheet({ name, symbol, address })
AppendSheet(ss, a) ==
    Append(ss, [name |-> "n", symbol |-> "s", address |-> a,
                calldata |-> FALSE])

\* both chainProvider.callContract calls have resolved: the callback of
\* lines 113-118 runs
NameSymbolResolved(p) ==
    /\ InFlight(p)
    /\ NameSymbolLive(loads[p])
    /\ Len(sheets) < MaxSheets
    /\ sheets' = AppendSheet(sheets, loads[p].addr)
    /\ loads' = [loads EXCEPT ![p] =
          Retire([@ EXCEPT !.nameSymbol = "ok", !.appended = @ + 1])]
    /\ UNCHANGED <<address, contract, values, appStatus, selectedSheetAddress,
                   load, effectPending,
                   env>>

\* the call of entrypoint ep rejects first: the Promise.all of line 104
\* rejects, and it has no rejection handler
NameSymbolRejected(p, ep) ==
    /\ InFlight(p)
    /\ NameSymbolLive(loads[p])
    /\ loads' = [loads EXCEPT ![p] =
          Retire([@ EXCEPT !.nameSymbol = "failed"])]
    /\ UNCHANGED <<address, contract, values, appStatus, sheets,
                   selectedSheetAddress, load, effectPending,
                   env>>

-----------------------------------------------------------------------------
(* What the collaborators may answer *)

CellValues == {RC_BOUND + 2, RC_BOUND + 3}

CellRendered(ids, vals) ==
    [id : ids, owner : {1}, value : vals, error : {FALSE}]

CellData(cas, sels) ==
    [contractAddress : cas, selector : sels, calldata : {<<>>}]

SeqsUpTo(S, n) == UNION {[1..k -> S] : k \in 0..n}

\* the answers used when several loads run concurrently
FewRendered == SeqsUpTo(CellRendered({0}, {RC_BOUND + 2}), 1)

FewCellData == CellData({GRID_SIZE, RC_BOUND + 1}, {1})

\* the answers used for a single load
AllRendered == SeqsUpTo(CellRendered(0..GRID_SIZE, CellValues), MaxRendered)

AllCellData == CellData({0, 1, GRID_SIZE, RC_BOUND + 1}, {1})

Entrypoints == {"name", "symbol"}

Chain(P, rendered, cellData) ==
    \/ \E p \in P, rc \in rendered : RenderCellsResolved(p, rc)
    \/ \E p \in P : RenderCellsRejected(p)
    \/ \E p \in P : GetCellsResolved(p, cellData)
    \/ \E p \in P, i \in 1..MaxRendered : GetCellRejected(p, i)
    \/ \E p \in P : CellsThen(p)
    \/ \E p \in P : AbisResolved(p)
    \/ \E p \in P, i \in GridIndexes : AbiRejected(p, i)
    \/ \E p \in P : Catch(p)
    \/ \E p \in P : Finally(p)

-----------------------------------------------------------------------------

InitWith(ss) ==
    /\ address = NoAddress
    /\ contract = FALSE
    /\ values = <<>>
    /\ appStatus = <<>>
    /\ sheets = ss
    /\ selectedSheetAddress = NoAddress
    /\ load = [address |-> NoAddress, contract |-> FALSE, values |-> <<>>,
               loading |-> FALSE, sheet |-> FindSheet(ss, NoAddress)]
    /\ effectPending = FALSE
    /\ loads = [p \in Slots |-> NoLoad]
    /\ navigations = 0
    /\ reruns = 0

Sheet(a, c) == [name |-> "n", symbol |-> "s", address |-> a, calldata |-> c]

\* "A" is not listed yet, "B" is a listed sheet that is not deployed yet
Init == InitWith(<<Sheet("B", TRUE)>>)

Next ==
    \/ \E a \in Addrs, c \in BOOLEAN : Navigate(a, c)
    \/ ContractReady
    \/ Render
    \/ EffectAgain
    \/ Effect(Slots)
    \/ Chain(Slots, FewRendered, FewCellData)
    \/ \E p \in Slots : NameSymbolResolved(p)
    \/ \E p \in Slots, ep \in Entrypoints : NameSymbolRejected(p, ep)

Spec == Init /\ [][Next]_vars

\* one load at a time of sheet "A", which is listed in onsheet.sheets
InitGrid == \E c \in BOOLEAN : InitWith(<<Sheet("A", c)>>)

NextGrid ==
    \/ \E c \in BOOLEAN : Navigate("A", c)
    \/ ContractReady
    \/ Render
    \/ Effect({1})
    \/ Chain({1}, AllRendered, AllCellData)

SpecGrid == InitGrid /\ [][NextGrid]_vars

\* the loads of sheet "A", listed in onsheet.sheets, when the effect may
\* run again
NextFair ==
    \/ \E c \in BOOLEAN : Navigate("A", c)
    \/ ContractReady
    \/ Render
    \/ EffectAgain
    \/ Effect(Slots)
    \/ Chain(Slots, FewRendered, FewCellData)

\* every renderCells, getCell and getAbiForContract call that was issued
\* settles, and the callbacks of a settled promise run
Settling == \A p \in Slots : WF_vars(Chain({p}, FewRendered, FewCellData))

SpecFair == InitGrid /\ [][NextFair]_vars /\ Settling

-----------------------------------------------------------------------------
(* Properties *)

FetchFailures == {"renderCells", "getCell", "abi"}

\* the chain of the invocation in slot p failed on a fetch and has run .catch
FetchFailed(p) ==
    /\ InFlight(p)
    /\ loads[p].failure \in FetchFailures

\* the step runs .finally of the invocation in slot p
FinallyStep(p) == Stage(p, "finally") /\ loads'[p].stage # "finally"

\* the step is one of the invocation in slot p
StepOf(p) == loads'[p] # loads[p]

GridShape(cells) ==
    /\ Len(cells) = GRID_SIZE
    /\ \A i \in GridIndexes : At(cells, i).id = i

\* C1: every stored cell array is empty or has exactly GRID_SIZE cells, the
\* cell at index i having id i, whatever renderCells returned
C1_GridShape ==
    \A a \in DOMAIN values : Len(values[a]) = 0 \/ GridShape(values[a])

\* renderCells returned more cells than the grid has, and the load stored
C1_Witness ==
    \E p \in Slots :
        /\ Stage(p, "finally")
        /\ loads[p].wrote = 1
        /\ Len(loads[p].getCellCalls) > GRID_SIZE
        /\ GridShape(values[loads[p].addr])

\* C2: the final status update of a load whose renderCells, getCell or
\* getAbiForContract call failed sets error = true
C2_ErrorFlagged ==
    [][\A p \in Slots :
          (FetchFailed(p) /\ FinallyStep(p))
              => appStatus'[loads[p].addr].error]_vars

\* C3: a load whose fetch failed has called navigate once and has not
\* written values when its chain settles; none of its steps writes values;
\* its final status update sets loading = false and the error message
C3_FailurePath ==
    /\ [](\A p \in Slots :
            (FetchFailed(p) /\ loads[p].stage \in {"finally", "done"})
                => (loads[p].navigated = 1 /\ loads[p].wrote = 0))
    /\ [][\A p \in Slots :
            /\ (StepOf(p) /\ (FetchFailed(p) \/ FetchFailed(p)'))
                  => values' = values
            /\ (FetchFailed(p) /\ FinallyStep(p))
                  => /\ ~appStatus'[loads[p].addr].loading
                     /\ appStatus'[loads[p].addr].message
                            = ErrorMessage(loads[p].addr)
                     /\ appStatus'[loads[p].addr].message # ""]_vars

\* the load of "A" failed, settled, and left the root route displayed
C3_Witness ==
    /\ "A" \in DOMAIN appStatus
    /\ ~appStatus["A"].loading
    /\ appStatus["A"].message = ErrorMessage("A")
    /\ "A" \notin DOMAIN values
    /\ address = NoAddress
    /\ \A p \in Slots : ~InFlight(p)

\* C4: a load whose name or symbol call failed has, when its chain settles,
\* run .catch: it has called navigate and set the error message
C4_NameSymbolFailureCaught ==
    \A p \in Slots :
        (InFlight(p) /\ loads[p].nameSymbol = "failed"
                     /\ loads[p].stage \in {"finally", "done"})
            => /\ loads[p].navigated = 1
               /\ loads[p].finalMessage = ErrorMessage(loads[p].addr)

\* the chain of the invocation in slot p has not reached its final update
Unsettled(p) == InFlight(p) /\ loads[p].stage # "done"

\* C5: at most one fetch pipeline per address is in flight
C5_OnePipelinePerAddress ==
    \A p, q \in Slots :
        (p # q /\ Unsettled(p) /\ Unsettled(q))
            => loads[p].addr # loads[q].addr

\* the address lines 163-167 prescribe for the cell at k of the built grid
ExpectedAddress(grid, k) ==
    IF grid[k].contractAddress < RC_BOUND
    THEN grid[grid[k].contractAddress + 1].value
    ELSE grid[k].contractAddress

\* C6: every getAbiForContract call of a load gets the value of the
\* referenced cell for a contract address below RC_BOUND and the contract
\* address itself otherwise; the stored cell has the entry of that ABI keyed
\* by its selector, and its contract address unchanged
C6_AddressResolution ==
    \A p \in Slots : InFlight(p) =>
        \A k \in 1..Len(loads[p].grid) :
            /\ loads[p].abiCalls[k] = 1
                  => loads[p].abiFor[k]
                        = bn2hex(ExpectedAddress(loads[p].grid, k))
            /\ loads[p].wrote = 1
                  => /\ loads[p].array[k].abi
                          = AbiOf(bn2hex(ExpectedAddress(loads[p].grid, k)))
                                [bn2hex(loads[p].grid[k].selector)]
                     /\ loads[p].array[k].contractAddress
                          = loads[p].grid[k].contractAddress
                     /\ values[loads[p].addr] = loads[p].array

\* a stored grid with one cell referring to another cell and one cell
\* holding a literal address
C6_Witness ==
    \E p \in Slots :
        /\ Stage(p, "finally")
        /\ loads[p].wrote = 1
        /\ \E k, m \in 1..GRID_SIZE :
              /\ k # m
              /\ loads[p].grid[k].contractAddress = m - 1
              /\ loads[p].grid[m].contractAddress > RC_BOUND
              /\ loads[p].grid[m].value # loads[p].grid[k].value
              /\ values[loads[p].addr][k].abi[2] = bn2hex(loads[p].grid[m].value)

\* values[b] or the status entry of b differ after the step
Touched(b) ==
    \/ (b \in DOMAIN values) # (b \in DOMAIN values')
    \/ (b \in DOMAIN values /\ values'[b] # values[b])
    \/ (b \in DOMAIN appStatus) # (b \in DOMAIN appStatus')
    \/ (b \in DOMAIN appStatus /\ appStatus'[b] # appStatus[b])

\* the step belongs to a load of b: to its chain, or to the call of load(b)
StepOfLoad(b) ==
    \/ \E p \in Slots :
          /\ StepOf(p)
          /\ \/ InFlight(p) /\ loads[p].addr = b
             \/ InFlight(p)' /\ loads'[p].addr = b
    \/ effectPending /\ ~effectPending' /\ load.address = b

\* C7: only the steps of a load of b change values[b] or the status of b,
\* no step removes a stored cell array, and a load that has stored its
\* cells finds them under its own address until it settles
C7_Frame ==
    /\ [](\A p \in Slots :
            (InFlight(p) /\ loads[p].wrote = 1)
                => IsCached(values, loads[p].addr))
    /\ [][\A b \in Addrs :
            /\ Touched(b) => StepOfLoad(b)
            /\ IsCached(values, b) => IsCached(values', b)]_vars

\* the loads of "A" and of "B" were in flight together and both stored
C7_Witness ==
    /\ \E p, q \in Slots :
          /\ Stage(p, "finally") /\ loads[p].addr = "A" /\ loads[p].wrote = 1
          /\ Stage(q, "finally") /\ loads[q].addr = "B" /\ loads[q].wrote = 1
    /\ IsCached(values, "A")
    /\ IsCached(values, "B")

\* the render gate of lines 243-247
GridRendered(a) ==
    /\ a # NoAddress
    /\ address = a
    /\ a \in DOMAIN appStatus
    /\ ~appStatus[a].loading
    /\ a \in DOMAIN values
    /\ Len(values[a]) = GRID_SIZE

\* C8: no grid row of a is rendered while a load of a is between its first
\* and its final status update
C8_NoRenderWhileLoading ==
    \A a \in Addrs :
        GridRendered(a) => ~\E p \in Slots : Unsettled(p) /\ loads[p].addr = a

\* the step calls load and the call starts a chain in slot p
Starts(p) == ~InFlight(p) /\ InFlight(p)'

Calls(r) == <<r.renderCalls, r.getCellCalls, r.abiCalls>>

\* C10: an invocation calls renderCells at most once, getCell at most once
\* per rendered cell and getAbiForContract at most once per grid index, and
\* issues no call after its chain has failed
C10_NoRetry ==
    /\ [](\A p \in Slots : InFlight(p) =>
            /\ loads[p].renderCalls <= 1
            /\ \A i \in 1..Len(loads[p].getCellCalls) :
                  loads[p].getCellCalls[i] <= 1
            /\ \A k \in 1..Len(loads[p].abiCalls) : loads[p].abiCalls[k] <= 1)
    /\ [][\A p \in Slots :
            (InFlight(p) /\ loads[p].failure # "none" /\ InFlight(p)')
                => Calls(loads'[p]) = Calls(loads[p])]_vars

\* an invocation issued every call once and then failed on an ABI lookup
C10_Witness ==
    \E p \in Slots :
        /\ Stage(p, "finally")
        /\ loads[p].failure = "abi"
        /\ loads[p].renderCalls = 1
        /\ Len(loads[p].getCellCalls) = MaxRendered
        /\ \A k \in 1..GRID_SIZE : loads[p].abiCalls[k] = 1

\* the step is the effect calling load on its cached path, lines 88-94
CachedLoad ==
    /\ effectPending
    /\ ~effectPending'
    /\ load.address # NoAddress
    /\ ~Guarded(load.address)
    /\ IsCached(load.values, load.address)

\* C11: a sheet is loading only while a load of it is in flight; the cached
\* path and the final status update leave loading = false; every load that
\* is in flight reaches its final status update
C11_LoadingReset ==
    /\ [](\A a \in Addrs :
            IsLoading(appStatus, a)
                => \E p \in Slots : Unsettled(p) /\ loads[p].addr = a)
    /\ [][/\ CachedLoad => ~IsLoading(appStatus', load.address)
          /\ \A p \in Slots :
                FinallyStep(p) => ~IsLoading(appStatus', loads[p].addr)]_vars
    /\ \A p \in Slots : Unsettled(p) ~> ~Unsettled(p)

\* a load of "A" set loading and stored the cells, and its final status
\* update has reset loading
C11_Witness ==
    /\ "A" \in DOMAIN appStatus
    /\ ~appStatus["A"].loading
    /\ IsCached(values, "A")
    /\ \A p \in Slots : ~Unsettled(p)

\* C12: a load whose guards pass and that reads a non-empty values entry for
\* its address starts no invocation and issues no call, does not append a
\* sheet or change the route, leaves values and the message of the address
\* as they were, and leaves loading = false and error = false
C12_CachedPath ==
    [][CachedLoad =>
          /\ loads' = loads
          /\ values' = values
          /\ sheets' = sheets
          /\ address' = address
          /\ ~appStatus'[load.address].loading
          /\ ~appStatus'[load.address].error
          /\ load.address \in DOMAIN appStatus
          /\ appStatus'[load.address].message
                 = appStatus[load.address].message]_vars

\* the effect has run load("A") with a callback that reads the stored cells
\* of "A"
C12_Witness ==
    /\ ~effectPending
    /\ load.address = "A"
    /\ load.contract
    /\ ~load.loading
    /\ IsCached(load.values, "A")
    /\ selectedSheetAddress = "A"
    /\ ~appStatus["A"].loading
    /\ \A p \in Slots : ~InFlight(p)

\* the step takes the invocation in slot p from stage `from` to stage `to`
Moves(p, from, to) == Stage(p, from) /\ loads'[p].stage = to

\* the message of the status of the address loaded in slot p, after the step
MessageAfter(p) == appStatus'[loads[p].addr].message

\* C13: a load of a deployed sheet that succeeds sets the message to
\* 'Rendering grid values' when it starts, to 'Fetching cells metadata' when
\* renderCells has resolved, to 'Finalizing sheet data' when every getCell
\* has resolved; it then stores GRID_SIZE cells without touching the status,
\* and only then its final update sets loading = false, error = false and an
\* empty message, so the cells are stored when loading becomes false
C13_SuccessOrder ==
    [][\A p \in Slots :
          /\ (Starts(p) /\ loads'[p].renderCalls = 1)
                => /\ loads'[p].stage = "renderCells"
                   /\ appStatus'[loads'[p].addr].loading
                   /\ appStatus'[loads'[p].addr].message
                          = "Rendering grid values"
          /\ (Moves(p, "renderCells", "getCell")
                    \/ Moves(p, "renderCells", "cells"))
                => MessageAfter(p) = "Fetching cells metadata"
          /\ ((Moves(p, "getCell", "abi") \/ Moves(p, "cells", "abi"))
                    /\ loads[p].renderCalls = 1)
                => MessageAfter(p) = "Finalizing sheet data"
          /\ (Moves(p, "abi", "finally") /\ loads'[p].failure = "none")
                => /\ IsCached(values', loads[p].addr)
                   /\ values'[loads[p].addr] = loads'[p].array
                   /\ GridShape(values'[loads[p].addr])
                   /\ appStatus' = appStatus
          /\ (FinallyStep(p) /\ loads[p].failure = "none")
                => /\ loads[p].wrote = 1
                   /\ IsCached(values', loads[p].addr)
                   /\ GridShape(values'[loads[p].addr])
                   /\ appStatus'[loads[p].addr] = DefaultSheetStatus]_vars

\* a load of a deployed sheet has stored the cells it fetched, and its final
\* status update is still to come
C13_Witness ==
    \E p \in Slots :
        /\ Stage(p, "finally")
        /\ loads[p].failure = "none"
        /\ loads[p].renderCalls = 1
        /\ Len(loads[p].getCellCalls) > 0
        /\ loads[p].wrote = 1
        /\ values[loads[p].addr] = loads[p].array
        /\ appStatus[loads[p].addr].loading
        /\ appStatus[loads[p].addr].message = "Finalizing sheet data"

\* the placeholder cell at grid index i, before and after its ABI is attached
Placeholder(i) ==
    [id |-> i, owner |-> 0, value |-> 0, contractAddress |-> RC_BOUND,
     selector |-> 0, calldata |-> <<>>]

PlaceholderWithAbi(i) ==
    [id |-> i, owner |-> 0, value |-> 0, contractAddress |-> RC_BOUND,
     selector |-> 0, calldata |-> <<>>,
     abi |-> AbiOf(bn2hex(RC_BOUND))[bn2hex(0)]]

\* C14: a load of a listed sheet that has calldata calls neither renderCells
\* nor getCell nor name and symbol; its grid is GRID_SIZE placeholder cells
\* whose ABI is asked for contract RC_BOUND itself, and on success these
\* placeholders are what it stores
C14_CalldataSheet ==
    /\ [][\A p \in Slots :
            /\ (Starts(p) /\ HasCalldata(load.sheet))
                  => /\ loads'[p].renderCalls = 0
                     /\ loads'[p].getCellCalls = <<>>
                     /\ loads'[p].nameSymbol = "none"
            /\ (Starts(p) /\ loads'[p].renderCalls = 0)
                  => HasCalldata(load.sheet)
            /\ (Moves(p, "abi", "finally") /\ loads[p].renderCalls = 0
                                           /\ loads'[p].failure = "none")
                  => /\ IsCached(values', loads[p].addr)
                     /\ Len(values'[loads[p].addr]) = GRID_SIZE
                     /\ \A i \in GridIndexes :
                           At(values'[loads[p].addr], i)
                               = PlaceholderWithAbi(i)]_vars
    /\ [](\A p \in Slots :
            (InFlight(p) /\ loads[p].renderCalls = 0)
                => /\ loads[p].getCellCalls = <<>>
                   /\ loads[p].nameSymbol = "none"
                   /\ loads[p].failure \in {"none", "abi"}
                   /\ loads[p].stage \in {"abi", "finally"}
                         => /\ Len(loads[p].grid) = GRID_SIZE
                            /\ \A i \in GridIndexes :
                                  /\ At(loads[p].grid, i) = Placeholder(i)
                                  /\ At(loads[p].abiFor, i)
                                         = bn2hex(RC_BOUND)
                                  /\ At(loads[p].abiCalls, i) = 1)

\* the load of a listed sheet with calldata has stored its placeholders
C14_Witness ==
    \E p \in Slots :
        /\ Stage(p, "finally")
        /\ loads[p].renderCalls = 0
        /\ loads[p].wrote = 1
        /\ \A i \in GridIndexes :
              At(values[loads[p].addr], i) = PlaceholderWithAbi(i)

\* the cell refers to a grid index that the grid does not have
BadReference(cell) ==
    /\ cell.contractAddress < RC_BOUND
    /\ cell.contractAddress >= GRID_SIZE

\* the grid built by the invocation in slot p has such a cell
HasBadReference(p) ==
    /\ InFlight(p)
    /\ \E k \in 1..Len(loads[p].grid) : BadReference(loads[p].grid[k])

\* C15: a load whose grid has a cell with a contract address below RC_BOUND
\* that is not a grid index fails as a whole: it never writes values, its
\* .catch changes the route to the root and sets the error message, which
\* its final status update publishes; no stored cell array holds such a cell
C15_BadReferenceFails ==
    /\ [](\A p \in Slots :
            HasBadReference(p)
                => /\ loads[p].failure = "resolve"
                   /\ loads[p].wrote = 0
                   /\ loads[p].stage \in {"rejected", "finally"}
                   /\ loads[p].stage = "finally"
                         => /\ loads[p].navigated = 1
                            /\ loads[p].finalMessage
                                   = ErrorMessage(loads[p].addr))
    /\ [](\A a \in DOMAIN values :
            \A k \in 1..Len(values[a]) : ~BadReference(values[a][k]))
    /\ [][\A p \in Slots :
            /\ (StepOf(p) /\ (HasBadReference(p) \/ HasBadReference(p)'))
                  => values' = values
            /\ (HasBadReference(p) /\ Moves(p, "rejected", "finally"))
                  => address' = NoAddress
            /\ (HasBadReference(p) /\ FinallyStep(p))
                  => /\ ~appStatus'[loads[p].addr].loading
                     /\ appStatus'[loads[p].addr].message
                            = ErrorMessage(loads[p].addr)]_vars

\* a load found a cell that refers outside the grid next to a cell whose ABI
\* it requested; it has run .catch and stored nothing
C15_Witness ==
    \E p \in Slots :
        /\ HasBadReference(p)
        /\ Stage(p, "finally")
        /\ \E k \in 1..GRID_SIZE : loads[p].abiCalls[k] = 1
        /\ loads[p].navigated = 1
        /\ address = NoAddress
        /\ loads[p].addr \notin DOMAIN values

\* the step runs the .catch callback of the invocation in slot p
CatchStep(p) ==
    /\ InFlight(p)
    /\ loads'[p] # NoLoad
    /\ loads'[p].navigated = loads[p].navigated + 1

\* C16: the .catch of a load leaves the route alone when the route and the
\* selected sheet are those of another sheet than the one the load is for
C16_RouteKeptForOtherSheet ==
    [][\A p \in Slots :
          (/\ CatchStep(p)
           /\ address \in Addrs \ {loads[p].addr}
           /\ selectedSheetAddress = address)
              => address' = address]_vars

\* the step is a call of appendSheet
AppendStep == sheets' # sheets

\* C17: appendSheet is never called for an address that onsheet.sheets
\* already lists, and onsheet.sheets never has two entries with one address
C17_AppendOncePerAddress ==
    /\ [](\A i, j \in 1..Len(sheets) :
            i # j => sheets[i].address # sheets[j].address)
    /\ [][AppendStep
            => \A i \in 1..Len(sheets) :
                  sheets[i].address # sheets'[Len(sheets')].address]_vars

====
